---- MODULE Spec2Model ----
(***************************************************************************)
(* The procedural DAG-growth simulator of the Kaspa and Sui visualizers:   *)
(* the Scene component's refs and block history, its per-frame simulation  *)
(* loop, the start-up effects, and the App component's selection and       *)
(* run state.                                                              *)
(*                                                                         *)
(* Numbers.  Times are integer milliseconds (Date.now()), measured from    *)
(* the moment the initial state describes.  A Math.random() draw r in      *)
(* [0,1) is the integer 100*r, so the threshold 0.95 is 95.  A block keeps *)
(* the fields the simulation logic reads or the properties name (id,       *)
(* parents, color, hash); position, createdAt, difficulty, tps are display. *)
(*                                                                         *)
(* Rendering.  setBlocks enqueues an update; the frame callback reads the  *)
(* `blocks` of the last committed render.  nextBlocks is the React state   *)
(* with every enqueued update applied, blocks is the committed snapshot,   *)
(* and Commit is the render commit that refreshes it.  App state set from  *)
(* a click (selectedBlock, started / isRunning) is rendered synchronously  *)
(* with the click, so it has no separate snapshot.                         *)
(***************************************************************************)
EXTENDS Integers, Sequences, FiniteSets, TLC

VARIABLES
  theme,          \* "kaspa" (src/unnamed/part_000) or "sui" (src/src/App.tsx)
  now,            \* wall clock, Date.now()
  mounted,        \* Scene's mount effects have run
  linked,         \* statsRefs.current.bps / .count point at their DOM nodes
  fetch,          \* start-up fetch: "none", "pending", "done"
  fetchOk,        \* history variable: the fetch completed and succeeded
  blocks,         \* the committed `blocks` the frame callback and the render read
  nextBlocks,     \* the blocks state with the enqueued setBlocks updates applied
  lastIdRef,      \* lastIdRef.current
  lastTimeRef,    \* lastTimeRef.current
  hasStartedRef,  \* hasStartedRef.current
  baseHeight,     \* statsRefs.current.baseHeight
  bpsText,        \* statsRefs.current.bps.innerText, as a number
  countText,      \* statsRefs.current.count.innerText, as a number
  isRunning,      \* App state `started` (Kaspa) / `isRunning` (Sui)
  selectedBlock,  \* App state selectedBlock: a block, or Null
  generated,      \* history variable: ids produced by the clock, in order
  lastRnd,        \* history variable: the category draw of the last tick
  lastSound,      \* the argument of the last playBlockSound call
  soundCount,     \* number of playBlockSound calls
  forced,         \* history variable: the last tick took the forced-parent branch
  op              \* history variable: "Frame" when the frame callback ran last

vars == <<theme, now, mounted, linked, fetch, fetchOk, blocks, nextBlocks, lastIdRef,
          lastTimeRef, hasStartedRef, baseHeight, bpsText, countText,
          isRunning, selectedBlock, generated, lastRnd, lastSound,
          soundCount, forced, op>>

sim == <<blocks, nextBlocks, lastIdRef, lastTimeRef, bpsText, countText,
         generated, lastRnd, lastSound, soundCount, forced>>

-----------------------------------------------------------------------------
(* Bounds of the model *)

MaxAdvances == 7     \* the clock stops after this many steps
FetchedCount == 42   \* the blockCount a successful fetch reports

LinkDraws ==         \* the draws of one tick's parent coin flips, by candidate
  { [k \in 1..8 |-> 30], [k \in 1..8 |-> IF k = 1 THEN 30 ELSE 90] }
Rnds == {90, 92, 95, 97, 99}   \* the category draws
TpsDraws == {0, 50}            \* the draws of the Sui display rate

-----------------------------------------------------------------------------
(* Program constants *)

Themes == {"kaspa", "sui"}
Null == [id |-> -1, parents |-> <<>>, color |-> "none", hash |-> "null"]
NoId == Null.id      \* selectedBlockId null: equal to no block's id
Loading == 0 - 1     \* the placeholder text of the count element

KASPA_CYAN == "#48Cca8"
SUI_BLUE == "#3898EC"

KaspaInterval == 300
SuiInterval == 600
KaspaCap == 75
SuiCap == 40
KaspaWindow == 8
SuiWindow == 6
KaspaLinkP == 60
SuiLinkP == 50
GoldP == 95
RedP == 90
LargeP == 95
ErrorP == 98
Fallback == 100000000
MockHeight == 124500000

Interval(t) == IF t = "kaspa" THEN KaspaInterval ELSE SuiInterval
Cap(t) == IF t = "kaspa" THEN KaspaCap ELSE SuiCap
Window(t) == IF t = "kaspa" THEN KaspaWindow ELSE SuiWindow
LinkP(t) == IF t = "kaspa" THEN KaspaLinkP ELSE SuiLinkP
BaseColor(t) == IF t = "kaspa" THEN KASPA_CYAN ELSE SUI_BLUE

Genesis(t) == [id |-> 0, parents |-> <<>>, color |-> BaseColor(t), hash |-> "genesis"]

-----------------------------------------------------------------------------
(* The start-up fetch (Kaspa) *)

\* how the request can end: rejected, or a response (2xx or not) whose body
\* is not JSON, is JSON without a blockCount, or is JSON with a blockCount
\* (an error response carries no block count)
Bodies == {"malformed", "noField", "count"}
Outcomes ==
  { [kind |-> "rejected", ok |-> FALSE, body |-> "none"] }
  \cup { [kind |-> "response", ok |-> TRUE, body |-> b] : b \in Bodies }
  \cup { [kind |-> "response", ok |-> FALSE, body |-> b] : b \in Bodies \ {"count"} }

\* the request succeeded: a 2xx response carrying a block count (what the
\* history variable fetchOk records)
Succeeded(f) == f.kind = "response" /\ f.ok /\ f.body = "count"

\* res.json() rejects, or fetch itself rejected: the .catch branch runs
Caught(f) == f.kind = "rejected" \/ f.body = "malformed"
\* data && data.blockCount
HasBlockCount(f) == f.kind = "response" /\ f.body = "count"
\* the decimal string in the blockCount field, as its sequence of digits
RECURSIVE Digits(_)
Digits(n) == IF n < 10 THEN <<n>> ELSE Append(Digits(n \div 10), n % 10)
BlockCountText(f) == Digits(FetchedCount)

\* parseInt on a string of decimal digits
RECURSIVE ParseInt(_)
ParseInt(ds) ==
  IF Len(ds) = 0 THEN 0
  ELSE 10 * ParseInt(SubSeq(ds, 1, Len(ds) - 1)) + ds[Len(ds)]

\* parseInt(data.blockCount)
ParsedBlockCount(f) == ParseInt(BlockCountText(f))

-----------------------------------------------------------------------------
(* The pure parts of the simulation loop *)

\* variant: the early return taken only when both flags are unset
ActiveEither(started, running) == started \/ running

\* hasStartedRef.current && isRunning: the negation of the early return
Active(started, running) == started /\ running

\* variant: the gate also opens when the elapsed time equals the interval
ShouldFireAtInterval(t, n, last) == n - last >= Interval(t)

\* variant: the gate compares the clock itself, not the elapsed time
ShouldFireIgnoringLast(t, n, last) == n > Interval(t)

\* now - lastTimeRef.current > interval
ShouldFire(t, n, last) == n - last > Interval(t)

\* variant: the counter skips an id
NextIdSkip(last) == last + 2

\* lastIdRef.current + 1
NextId(last) == last + 1

\* blocks.slice(-n)
Slice(bs, n) == SubSeq(bs, IF Len(bs) > n THEN Len(bs) - n + 1 ELSE 1, Len(bs))

\* the forEach over potentialParents, one Math.random() draw per candidate
Picked(pot, draws, p) ==
  LET F[k \in 0..Len(pot)] ==
        IF k = 0 THEN <<>>
        ELSE IF draws[k] > p THEN Append(F[k - 1], pot[k].id) ELSE F[k - 1]
  IN F[Len(pot)]

\* the condition of the forced-parent branch: no candidate picked and a
\* non-empty snapshot
ForcedParent(bs, draws, t) ==
  Len(Picked(Slice(bs, Window(t)), draws, LinkP(t))) = 0 /\ Len(bs) > 0

\* parent selection with the forced most-recent parent
SelectParents(bs, draws, t) ==
  LET parents == Picked(Slice(bs, Window(t)), draws, LinkP(t))
  IN IF Len(parents) = 0 /\ Len(bs) > 0
       THEN <<bs[Len(bs)].id>>
       ELSE parents

\* variant: the lower threshold is tested first
KaspaCategorySwapped(rnd) ==
  IF rnd > RedP THEN [color |-> "#FF4081", type |-> "red"]
  ELSE IF rnd > GoldP THEN [color |-> "#FFD700", type |-> "gold"]
  ELSE [color |-> KASPA_CYAN, type |-> "normal"]

\* color logic
KaspaCategory(rnd) ==
  IF rnd > GoldP THEN [color |-> "#FFD700", type |-> "gold"]
  ELSE IF rnd > RedP THEN [color |-> "#FF4081", type |-> "red"]
  ELSE [color |-> KASPA_CYAN, type |-> "normal"]

SuiCategory(rnd) ==
  IF rnd > LargeP THEN [color |-> "#ffffff", type |-> "large"]
  ELSE IF rnd > ErrorP THEN [color |-> "#FF4081", type |-> "error"]
  ELSE [color |-> SUI_BLUE, type |-> "normal"]

Category(t, rnd) == IF t = "kaspa" THEN KaspaCategory(rnd) ELSE SuiCategory(rnd)

\* variant: the updater never trims
AppendBlockNoTrim(prev, b, t) == Append(prev, b)

\* the setBlocks updater: append, then shift when over the cap
AppendBlock(prev, b, t) ==
  LET updated == Append(prev, b)
  IN IF Len(updated) > Cap(t) THEN Tail(updated) ELSE updated

\* currentBps.toFixed(1) in tenths; `last` is lastTimeRef.current after its reset
KaspaBps(n, last) ==
  LET d == n - (last - 300) IN (20000 + d) \div (2 * d)

\* currentTps.toFixed(0)
SuiTps(r) == 2000 + 30 * r

\* variant: the base height is left out of the count
RealHeightNoBase(base, id) == id

\* (statsRefs.current.baseHeight || 0) + newId
RealHeight(base, id) == (IF base = 0 THEN 0 ELSE base) + id

\* the selectedBlockId prop: `?? null` in Kaspa, `|| null` in Sui
SelectedBlockId(t, sel) ==
  IF sel = Null THEN NoId
  ELSE IF t = "kaspa" THEN sel.id
  ELSE IF sel.id = 0 THEN NoId ELSE sel.id

\* variant: every block at or after the selected id is marked
IsSelectedLoose(t, sel, b) == SelectedBlockId(t, sel) <= b.id

\* the isSelected prop of a rendered Block
IsSelected(t, sel, b) == SelectedBlockId(t, sel) = b.id

\* a parent edge of some rendered block is drawn (the parent is still rendered)
LineDrawn(bs) ==
  LET ids == {bs[k].id : k \in 1..Len(bs)}
  IN {i \in 1..Len(bs) : {j \in 1..Len(bs[i].parents) : bs[i].parents[j] \in ids} # {}} # {}

-----------------------------------------------------------------------------
(* Initial states *)

\* a block generated by a tick whose coin flips all failed and whose
\* category draw was at most 0.90
Plain(t, i) ==
  [id |-> i, parents |-> <<i - 1>>, color |-> BaseColor(t), hash |-> "random"]

\* the history after n such ticks, each committed
Chain(t, n) == [i \in 1..(n + 1) |-> IF i = 1 THEN Genesis(t) ELSE Plain(t, i - 1)]

\* the state after the first render commit of App and Scene
Fresh ==
  /\ now = 0
  /\ mounted = FALSE
  /\ linked = (theme = "sui")
  /\ fetch = "none"
  /\ fetchOk = FALSE
  /\ blocks = <<>>
  /\ nextBlocks = <<>>
  /\ lastIdRef = 0
  /\ lastTimeRef = 0
  /\ hasStartedRef = FALSE
  /\ baseHeight = 0
  /\ bpsText = 0
  /\ countText = Loading
  /\ isRunning = (theme = "sui")
  /\ selectedBlock = Null
  /\ generated = <<>>
  /\ lastRnd = 0
  /\ lastSound = "none"
  /\ soundCount = 0
  /\ forced = FALSE
  /\ op = "init"

\* the state right after the tick that fills the history to its cap: the
\* run in which the fetch was rejected (Kaspa) and every tick so far drew
\* no parent candidate, the normal category and the lowest display rate
Full ==
  LET n == Cap(theme) - 1
      base == IF theme = "kaspa" THEN Fallback ELSE 0
  IN /\ now = 0
     /\ mounted = TRUE
     /\ linked = TRUE
     /\ fetch = IF theme = "kaspa" THEN "done" ELSE "none"
     /\ fetchOk = FALSE
     /\ blocks = Chain(theme, n)
     /\ nextBlocks = Chain(theme, n)
     /\ lastIdRef = n
     /\ lastTimeRef = 0
     /\ hasStartedRef = TRUE
     /\ baseHeight = base
     /\ bpsText = IF theme = "kaspa" THEN KaspaBps(0, 0) ELSE SuiTps(0)
     /\ countText = RealHeight(base, n)
     /\ isRunning = TRUE
     /\ selectedBlock = Null
     /\ generated = [i \in 1..n |-> i]
     /\ lastRnd = 90
     /\ lastSound = "normal"
     /\ soundCount = n
     /\ forced = FALSE
     /\ op = "Frame"

\* a run from the page load
Init ==
  /\ theme \in Themes
  /\ Fresh

\* a run from the page load, or from the moment the history is full
InitFull ==
  /\ theme \in Themes
  /\ (Fresh \/ Full)

-----------------------------------------------------------------------------
(* Operations *)

\* Scene's mount effects, in source order
Mount ==
  /\ ~mounted
  /\ mounted' = TRUE
  /\ IF theme = "kaspa"
       THEN /\ fetch' = "pending"
            /\ UNCHANGED <<hasStartedRef, baseHeight>>
       ELSE /\ hasStartedRef' = TRUE
            /\ baseHeight' = IF baseHeight # 0 THEN MockHeight ELSE baseHeight
            /\ UNCHANGED fetch
  /\ UNCHANGED fetchOk
  /\ nextBlocks' = <<Genesis(theme)>>
  /\ op' = "event"
  /\ UNCHANGED <<theme, now, linked, blocks, lastIdRef, lastTimeRef, bpsText,
                 countText, isRunning, selectedBlock, generated, lastRnd,
                 lastSound, soundCount, forced>>

\* App's "Link refs" effect (Kaspa)
LinkRefs ==
  /\ theme = "kaspa"
  /\ ~linked
  /\ linked' = TRUE
  /\ op' = "event"
  /\ UNCHANGED <<theme, now, mounted, fetch, fetchOk, hasStartedRef, baseHeight,
                 isRunning, selectedBlock>>
  /\ UNCHANGED sim

\* the fetch promise chain settles
FetchDone(f) ==
  /\ fetch = "pending"
  /\ fetch' = "done"
  /\ fetchOk' = Succeeded(f)
  /\ IF Caught(f)
       THEN /\ baseHeight' = Fallback
            /\ hasStartedRef' = TRUE
       ELSE IF HasBlockCount(f)
       THEN /\ baseHeight' = ParsedBlockCount(f)
            /\ hasStartedRef' = TRUE
       ELSE UNCHANGED <<baseHeight, hasStartedRef>>
  /\ op' = "event"
  /\ UNCHANGED <<theme, now, mounted, linked, isRunning, selectedBlock>>
  /\ UNCHANGED sim

\* the INITIALIZE SIMULATION button (Kaspa); React flushes App's pending
\* effect before it renders the update
HandleStart ==
  /\ theme = "kaspa"
  /\ ~isRunning
  /\ isRunning' = TRUE
  /\ linked' = TRUE
  /\ op' = "event"
  /\ UNCHANGED <<theme, now, mounted, fetch, fetchOk, hasStartedRef, baseHeight,
                 selectedBlock>>
  /\ UNCHANGED sim

\* the PAUSE / RESUME button (Sui)
TogglePause ==
  /\ theme = "sui"
  /\ isRunning' = ~isRunning
  /\ op' = "event"
  /\ UNCHANGED <<theme, now, mounted, linked, fetch, fetchOk, hasStartedRef, baseHeight,
                 selectedBlock>>
  /\ UNCHANGED sim

\* the rendered blocks a click is tried on
ClickTargets == {1, Len(blocks)} \cap (1..Len(blocks))

\* a click on a rendered block's mesh: onSelect(data); in Kaspa the start
\* overlay covers the canvas until the simulation is started
Select(i) ==
  /\ theme = "kaspa" => isRunning
  /\ selectedBlock' = blocks[i]
  /\ op' = "event"
  /\ UNCHANGED <<theme, now, mounted, linked, fetch, fetchOk, hasStartedRef, baseHeight,
                 isRunning>>
  /\ UNCHANGED sim

\* onBlockSelect(null) from a click that reaches the group (on a drawn
\* edge), or the CLOSE button of the details panel (Sui)
Deselect ==
  /\ IF LineDrawn(blocks) /\ (theme = "kaspa" => isRunning)
       THEN TRUE
       ELSE theme = "sui" /\ selectedBlock # Null
  /\ selectedBlock' = Null
  /\ op' = "event"
  /\ UNCHANGED <<theme, now, mounted, linked, fetch, fetchOk, hasStartedRef, baseHeight,
                 isRunning>>
  /\ UNCHANGED sim

\* time passes; the clock is read at multiples of half the theme's interval,
\* so elapsed times below, equal to and above the interval all occur
Step(t) == Interval(t) \div 2

Advance ==
  /\ now < MaxAdvances * Step(theme)
  /\ now' = now + Step(theme)
  /\ op' = "event"
  /\ UNCHANGED <<theme, mounted, linked, fetch, fetchOk, blocks, nextBlocks, lastIdRef,
                 lastTimeRef, hasStartedRef, baseHeight, bpsText, countText,
                 isRunning, selectedBlock, generated, lastRnd, lastSound,
                 soundCount, forced>>

\* the body of the interval branch of the simulation loop
Tick(draws, rnd, tps) ==
  LET newId == NextId(lastIdRef)
      parents == SelectParents(blocks, draws, theme)
      cat == Category(theme, rnd)
      newBlock == [id |-> newId, parents |-> parents, color |-> cat.color,
                   hash |-> "random"]
  IN /\ lastTimeRef' = now
     /\ lastIdRef' = newId
     /\ lastRnd' = rnd
     /\ lastSound' = cat.type
     /\ soundCount' = soundCount + 1
     /\ forced' = ForcedParent(blocks, draws, theme)
     /\ nextBlocks' = AppendBlock(nextBlocks, newBlock, theme)
     /\ generated' = Append(generated, newId)
     /\ bpsText' = IF ~linked THEN bpsText
                   ELSE IF theme = "kaspa" THEN KaspaBps(now, lastTimeRef')
                   ELSE SuiTps(tps)
     /\ countText' = IF linked THEN RealHeight(baseHeight, newId) ELSE countText
     /\ UNCHANGED blocks

\* the simulation loop's useFrame callback
Frame ==
  /\ op' = "Frame"
  /\ UNCHANGED <<theme, now, mounted, linked, fetch, fetchOk, hasStartedRef, baseHeight,
                 isRunning, selectedBlock>>
  /\ IF Active(hasStartedRef, isRunning) /\ ShouldFire(theme, now, lastTimeRef)
       THEN \E draws \in LinkDraws, rnd \in Rnds :
                \E tps \in (IF theme = "sui" THEN TpsDraws ELSE {0}) :
                  Tick(draws, rnd, tps)
       ELSE UNCHANGED sim

\* React commits a render of Scene with the enqueued setBlocks updates
Commit ==
  /\ blocks # nextBlocks
  /\ blocks' = nextBlocks
  /\ op' = "event"
  /\ UNCHANGED <<theme, now, mounted, linked, fetch, fetchOk, nextBlocks, lastIdRef,
                 lastTimeRef, hasStartedRef, baseHeight, bpsText, countText,
                 isRunning, selectedBlock, generated, lastRnd, lastSound,
                 soundCount, forced>>

\* the fetch settles in one of its outcomes
FetchSettles == \E f \in Outcomes : FetchDone(f)

\* the user clicks one of the rendered blocks
Click == \E i \in ClickTargets : Select(i)

Next ==
  \/ Mount
  \/ LinkRefs
  \/ FetchSettles
  \/ HandleStart
  \/ TogglePause
  \/ Click
  \/ Deselect
  \/ Advance
  \/ Frame
  \/ Commit

Spec == Init /\ [][Next]_vars

SpecFull == InitFull /\ [][Next]_vars

-----------------------------------------------------------------------------
(* Properties *)

Ids(bs) == {bs[i].id : i \in 1..Len(bs)}
Members(bs) == {bs[i] : i \in 1..Len(bs)}
Increasing(bs) == \A i \in 1..(Len(bs) - 1) : bs[i].id < bs[i + 1].id
Elapsed == now - lastTimeRef
\* the step is a frame callback that generated a block
Fired ==
  /\ lastIdRef' = lastIdRef + 1
  /\ lastTimeRef' = now
  /\ Len(generated') = Len(generated) + 1
  /\ Members(nextBlocks') \ Members(nextBlocks) # {}

\* C1: the ids generated by the clock are exactly 1, 2, 3, ... in generation
\* order, and id 0 is carried only by the seeded genesis block, which has no
\* parents and is never produced by a tick.
C1_IdsSequential ==
  /\ generated = [i \in 1..Len(generated) |-> i]
  /\ lastIdRef = Len(generated)
  /\ \A b \in Members(nextBlocks) \cup Members(blocks) :
       IF b.id = 0
         THEN b.hash = "genesis" /\ b.parents = <<>>
         ELSE b.hash # "genesis" /\ b.id \in {generated[i] : i \in 1..Len(generated)}

C1_Witness ==
  /\ generated = <<1, 2>>
  /\ Ids(nextBlocks) = {0, 1, 2}

\* C2: the history never holds more than 75 (Kaspa) / 40 (Sui) blocks, it is
\* ordered by strictly increasing id, and an append that evicts a block
\* evicts exactly the block with the lowest id in the history.
C2_Bounded ==
  /\ Len(nextBlocks) <= (IF theme = "kaspa" THEN 75 ELSE 40)
  /\ Len(blocks) <= (IF theme = "kaspa" THEN 75 ELSE 40)
  /\ Increasing(nextBlocks)
  /\ Increasing(blocks)

C2_EvictsLowest ==
  LET gone == Members(nextBlocks) \ Members(nextBlocks')
  IN gone # {} =>
       /\ gone = {nextBlocks[1]}
       /\ \A b \in Members(nextBlocks) : nextBlocks[1].id <= b.id

C2_BoundedFifo == [](C2_Bounded) /\ [][C2_EvictsLowest]_vars

C2_Witness ==
  /\ theme = "kaspa"
  /\ Len(nextBlocks) = 75
  /\ nextBlocks[1].id = 2

\* C3: every block generated by a tick has a non-empty parent list, and
\* every id in it is strictly smaller than the block's own id.
C3_ParentsValid ==
  \A b \in Members(nextBlocks) :
    b.id # 0 =>
      /\ Len(b.parents) > 0
      /\ \A j \in 1..Len(b.parents) : b.parents[j] < b.id

\* C4: a block of the history is rendered as selected if and only if it is
\* the block passed to the most recent select event and no clear event has
\* occurred since, the genesis block included.
C4_SelectedIffChosen ==
  \A b \in Members(blocks) :
    IsSelected(theme, selectedBlock, b) <=> (selectedBlock # Null /\ b = selectedBlock)

\* C5: in the Kaspa theme every unsuccessful completion of the start-up
\* fetch sets the base height to the fallback 100000000 and sets the
\* readiness flag.
C5_FailureFallsBack ==
  (theme = "kaspa" /\ fetch = "done" /\ ~fetchOk) =>
    (baseHeight = 100000000 /\ hasStartedRef)

\* C6: a frame callback that runs while the readiness flag is unset or the
\* simulation is not running generates nothing and leaves the id counter,
\* the last-fire time, the history and the stats sink unchanged.
C6_IdleFrameNoEffect ==
  [][(op' = "Frame" /\ (~hasStartedRef \/ ~isRunning)) =>
       UNCHANGED <<lastIdRef, lastTimeRef, nextBlocks, blocks, bpsText,
                   countText, generated, soundCount>>]_vars

C6_Witness ==
  /\ op = "Frame"
  /\ theme = "sui"
  /\ hasStartedRef
  /\ ~isRunning
  /\ Elapsed > 3 * 600

\* C7 as stated: a frame callback that runs while ready and running fires
\* exactly when now - lastFire >= interval (300 ms Kaspa, 600 ms Sui).
C7_FiresAtInterval ==
  [][(op' = "Frame" /\ hasStartedRef /\ isRunning) =>
       (Fired <=> Elapsed >= (IF theme = "kaspa" THEN 300 ELSE 600))]_vars

\* C7 amended: a frame callback that runs while ready and running fires
\* exactly when now - lastFire > interval; when the elapsed time equals the
\* interval it does not fire and changes nothing.
C7_FiresAboveInterval ==
  [][(op' = "Frame" /\ hasStartedRef /\ isRunning) =>
       /\ Fired <=> Elapsed > (IF theme = "kaspa" THEN 300 ELSE 600)
       /\ ~Fired => UNCHANGED <<lastIdRef, lastTimeRef, nextBlocks, generated>>]_vars

C7_Witness ==
  /\ op = "Frame"
  /\ Len(generated) = 1
  /\ lastTimeRef = now
  /\ now = 3 * Step(theme)

\* C8: a frame callback that runs with an elapsed time below the interval
\* changes neither the history, the id counter, the last-fire time, the
\* selection nor the two values of the stats sink.
C8_BelowIntervalNoEffect ==
  [][(op' = "Frame" /\ Elapsed < (IF theme = "kaspa" THEN 300 ELSE 600)) =>
       UNCHANGED <<nextBlocks, blocks, lastIdRef, lastTimeRef, selectedBlock,
                   bpsText, countText>>]_vars

C8_Witness ==
  /\ op = "Frame"
  /\ hasStartedRef /\ isRunning
  /\ Elapsed > 0
  /\ Elapsed < Interval(theme)
  /\ Len(generated) = 1

\* C9: one frame callback appends at most one block and advances the id
\* counter by at most 1, however long ago the last fire was.
C9_AtMostOnePerFrame ==
  [][op' = "Frame" =>
       /\ lastIdRef' - lastIdRef <= 1
       /\ Len(generated') - Len(generated) <= 1
       /\ Cardinality(Members(nextBlocks') \ Members(nextBlocks)) <= 1]_vars

C9_Witness ==
  /\ op = "Frame"
  /\ Len(generated) = 1
  /\ lastTimeRef = now
  /\ now >= 3 * Interval(theme)

\* C10: the category is a function of the category draw alone: in Kaspa a
\* draw above 0.95 gives gold, one in (0.90, 0.95] red, one up to 0.90
\* normal; in Sui a draw above 0.95 gives large and 0.92 gives normal; the
\* notification is invoked once per generated block, with that category.
C10_CategoryFromDraw ==
  /\ soundCount = Len(generated)
  /\ (soundCount > 0 /\ theme = "kaspa") =>
       /\ lastRnd > 95 => lastSound = "gold"
       /\ (90 < lastRnd /\ lastRnd <= 95) => lastSound = "red"
       /\ lastRnd <= 90 => lastSound = "normal"
       /\ nextBlocks[Len(nextBlocks)].color =
            (CASE lastSound = "gold" -> "#FFD700"
               [] lastSound = "red" -> "#FF4081"
               [] OTHER -> "#48Cca8")
  /\ (soundCount > 0 /\ theme = "sui") =>
       /\ lastRnd > 95 => lastSound = "large"
       /\ lastRnd = 92 => lastSound = "normal"
       /\ nextBlocks[Len(nextBlocks)].color =
            (CASE lastSound = "large" -> "#ffffff"
               [] lastSound = "error" -> "#FF4081"
               [] OTHER -> "#3898EC")

C10_Witness ==
  /\ theme = "kaspa"
  /\ lastRnd = 92
  /\ lastSound = "red"
  /\ nextBlocks[Len(nextBlocks)].color = "#FF4081"

\* C11: in the Sui theme a category draw above 0.98 produces a block of
\* category 'error', with color #FF4081.
C11_ErrorAbove98 ==
  (theme = "sui" /\ soundCount > 0 /\ lastRnd > 98) =>
    /\ lastSound = "error"
    /\ nextBlocks[Len(nextBlocks)].color = "#FF4081"

C13_RateFromElapsed ==
  [][(op' = "Frame" /\ theme = "kaspa" /\ Fired) =>
       bpsText' = (20000 + Elapsed) \div (2 * Elapsed)]_vars

\* C14: in the Sui theme the count shown by the tick that generates id n is
\* 124500000 + n.
C14_SuiCountFromMock ==
  (theme = "sui" /\ op = "Frame" /\ soundCount > 0) =>
    countText = 124500000 + lastIdRef

\* C15: no frame callback changes the selected block, also when its append
\* evicts the selected block from the history; the selection of an evicted
\* block persists and no rendered block of the history is marked selected.
C15_StaleAfterEviction ==
  (selectedBlock # Null /\ selectedBlock \notin Members(blocks)) =>
    \A b \in Members(blocks) : ~IsSelected(theme, selectedBlock, b)

C15_FrameKeepsSelection ==
  /\ [](C15_StaleAfterEviction)
  /\ [][op' = "Frame" => selectedBlock' = selectedBlock]_vars

C15_Witness ==
  /\ selectedBlock # Null
  /\ selectedBlock \notin Members(blocks)
  /\ Len(blocks) = Cap(theme)
  /\ op = "Frame"

\* C16: a tick that generates id n, picks no candidate by coin flip and reads
\* a non-empty history gives the new block the single parent n - 1, whatever
\* the interleaving of ticks and render commits.
C16_ForcedParentIsPrevious ==
  (soundCount > 0 /\ forced) =>
    nextBlocks[Len(nextBlocks)].parents = <<lastIdRef - 1>>

====
